---- MODULE Spec2Model ----
(***************************************************************************)
(* Model of flash_whisper:                                                 *)
(*   - ORTWhisper.preprocess / ORTWhisper._retrieve_init_token             *)
(*     (src/src/flash_whisper/onnx/whisper.py), the decoder-prompt builder *)
(*     working on the shared, mutable generation_config;                   *)
(*   - WhisperTRTLLM.process_batch                                         *)
(*     (src/src/flash_whisper/tllm/whisper.py), the batch orchestrator.    *)
(*                                                                         *)
(* Optional values (Python `None` or a value) are encoded as sets with at  *)
(* most one element: None == {} and Some(x) == {x}.                        *)
(***************************************************************************)
EXTENDS Integers, Sequences, FiniteSets, TLC

\* ------------------------------------------------------------------ bounds
MaxBatch == 2
MaxPos == 3
MaxSamples == 3
MaxPromptLen == 2

\* ------------------------------------------------------ optional values
None == {}
Some(x) == {x}
Get(o) == CHOOSE x \in o : TRUE

\* ----------------------------------------------- generation_config data
decoder_start_token_id == 50258
no_timestamps_token_id == 50363
lang_to_id == ("<|en|>" :> 50259) @@ ("<|fr|>" :> 50265)
task_to_id == ("transcribe" :> 50359) @@ ("translate" :> 50358)
TO_LANGUAGE_CODE == ("english" :> "en") @@ ("french" :> "fr") @@ ("german" :> "de")

Range(f) == {f[k] : k \in DOMAIN f}

\* str.lower() on the strings the model passes as languages
Lower(s) ==
    CASE s = "French" -> "french"
      [] s = "EN" -> "en"
      [] OTHER -> s

VARIABLES
    hasLangTable,        \* hasattr(generation_config, "lang_to_id")
    hasTaskTable,        \* hasattr(generation_config, "task_to_id")
    hasNoTimestamps,     \* hasattr(generation_config, "no_timestamps_token_id")
    return_timestamps,   \* generation_config.return_timestamps
    language,            \* generation_config.language
    forced_decoder_ids,  \* generation_config.forced_decoder_ids
    argLanguage,         \* `language` argument of the last preprocess call
    argBatch,            \* input_features.shape[0] of the last preprocess call
    result,              \* outcome of the last preprocess call
    waves,               \* process_batch: mel frame count of each input sample
    prompt_len,          \* process_batch: length of the encoded prompt
    engine_out,          \* process_batch: output_ids of the engine, [batch][beam]
    enc_lengths,         \* process_batch: encoder_output_lengths given to the engine
    batch_result         \* outcome of the last process_batch call

cfgVars == <<hasLangTable, hasTaskTable, hasNoTimestamps, return_timestamps>>
buildVars == <<language, forced_decoder_ids, argLanguage, argBatch, result>>
batchVars == <<waves, prompt_len, engine_out, enc_lengths, batch_result>>
vars == <<cfgVars, buildVars, batchVars>>

\* --------------------------------------------------------------- results
Ok(v) == [err |-> "", val |-> v]
Fail(e) == [err |-> e, val |-> <<>>]

\* language_to_id: case-insensitive lookup chain, lines 86-106
TokenOf(code) == "<|" \o code \o "|>"

LookupToken(language_token) ==
    IF language_token \notin DOMAIN lang_to_id
    THEN Fail("UnsupportedLanguage")
    ELSE Ok(lang_to_id[language_token])

language_to_id(l) ==
    LET lang == Lower(l) IN
    IF ~hasLangTable THEN Fail("AttributeError")
    ELSE IF lang \in DOMAIN lang_to_id THEN LookupToken(lang)
    ELSE IF lang \in DOMAIN TO_LANGUAGE_CODE THEN LookupToken(TokenOf(TO_LANGUAGE_CODE[lang]))
    ELSE IF lang \in Range(TO_LANGUAGE_CODE) THEN LookupToken(TokenOf(lang))
    ELSE Fail("UnsupportedLanguage")

\* lines 110-114: a language on the config discards the forced directive
ResolveConflict(forced, lang) ==
    IF forced # None /\ lang # None THEN None ELSE forced

\* lines 118-122: consume the entries at positions i, i+1, ...
RECURSIVE Consume(_, _, _)
Consume(init_tokens, forced, i) ==
    IF Len(forced) > 0 /\ forced[1][1] = i
    THEN Consume(Append(init_tokens, forced[1][2]), Tail(forced), i + 1)
    ELSE [init_tokens |-> init_tokens, rest |-> forced]

\* lines 116-127: seed the prefix from the forced directive
SeedPrefix(forced) ==
    LET start == <<Some(decoder_start_token_id)>> IN
    IF forced = None THEN Ok(start)
    ELSE LET f == Get(forced) IN
         IF Len(f) = 0 THEN Fail("IndexError")
         ELSE IF f[1][1] = 1
              THEN LET c == Consume(start, f, 1) IN
                   IF Len(c.rest) > 0 THEN Fail("MalformedForcedIds")
                   ELSE Ok(c.init_tokens)
              ELSE Ok(start)

\* line 129 left out: the directive stays on the config
ForcedAfterSeedKept(forced) == forced

\* line 129: the config's directive after the seeding step
ForcedAfterSeed(forced) == None

\* line 131
is_lang_id_undefined(init_tokens) ==
    Len(init_tokens) <= 1 \/ (Len(init_tokens) > 1 /\ init_tokens[2] = None)

\* lines 132-146: the per-sample language list
Languages(lang, batch_size) ==
    IF lang = None THEN Ok([i \in 1..batch_size |-> None])
    ELSE LET v == Get(lang) IN
         IF v.kind = "list"
         THEN IF \E i \in 1..Len(v.l) : v.l[i] = None THEN Fail("InvalidArgument")
              ELSE IF Len(v.l) # batch_size THEN Fail("InvalidArgument")
              ELSE Ok(v.l)
         ELSE Ok(<<Some(v.s)>>)

\* lines 149-152: the language ids; lang_ids stays unbound when no language
\* is given and the seeded prefix defines the language slot
LangIds(lang, languages, undefined, batch_size) ==
    IF lang # None
    THEN LET ids == [i \in 1..Len(languages) |-> language_to_id(Get(languages[i]))]
             bad == {i \in 1..Len(languages) : ids[i].err # ""}
         IN IF bad # {}
            THEN Fail(ids[CHOOSE i \in bad : \A j \in bad : i <= j].err)
            ELSE Ok([i \in 1..Len(languages) |-> ids[i].val])
    ELSE IF undefined
    THEN LET en == language_to_id("en") IN
         IF en.err # "" THEN Fail(en.err)
         ELSE Ok([i \in 1..batch_size |-> en.val])
    ELSE Fail("UnboundLocalError")

\* lines 155-158: overwrite the second element or append
InsertLanguage(row, lang_id) ==
    IF Len(row) > 1
    THEN [row EXCEPT ![2] = Some(lang_id)]
    ELSE Append(row, Some(lang_id))

\* lines 162-165: the task table is read through self.eneration_config,
\* an attribute ORTWhisper does not have
TaskStep(row, lang) ==
    IF lang # None /\ hasTaskTable THEN Fail("AttributeError") ELSE Ok(row)

\* lines 167-179: the timestamp policy
TimestampStep(row) ==
    IF /\ ~return_timestamps
       /\ hasNoTimestamps
       /\ row[Len(row)] # Some(no_timestamps_token_id)
    THEN Ok(Append(row, Some(no_timestamps_token_id)))
    ELSE IF ~return_timestamps THEN Ok(row)
    ELSE IF ~hasNoTimestamps THEN Fail("AttributeError")
    ELSE IF row[Len(row)] = Some(no_timestamps_token_id)
    THEN Ok(SubSeq(row, 1, Len(row) - 1))
    ELSE Ok(row)

\* line 181: drop the None placeholders
RECURSIVE Sanitize(_)
Sanitize(row) ==
    IF row = <<>> THEN <<>>
    ELSE IF Head(row) = None THEN Sanitize(Tail(row))
    ELSE <<Get(Head(row))>> \o Sanitize(Tail(row))

\* lines 161-181: one iteration of the second loop
FinishRow(row, lang) ==
    LET t == TaskStep(row, lang) IN
    IF t.err # "" THEN t
    ELSE LET s == TimestampStep(t.val) IN
         IF s.err # "" THEN s ELSE Ok(Sanitize(s.val))

\* line 183: np.tile(a, (batch_size, 1)) repeats the rows of a batch_size times
RECURSIVE Tile(_, _)
Tile(rows, reps) ==
    IF reps = 0 THEN <<>> ELSE rows \o Tile(rows, reps - 1)

\* line 183: np.array needs rows of one length
ToArray(rows) ==
    IF \E i, j \in 1..Len(rows) : Len(rows[i]) # Len(rows[j])
    THEN Fail("ValueError")
    ELSE Ok(rows)

Outcome(status, prompts, forced) ==
    [status |-> status, prompts |-> prompts, forced |-> forced]

\* lines 84-183
retrieve_init_token(batch_size, cfgLanguage, cfgForced) ==
    LET seed == SeedPrefix(ResolveConflict(cfgForced, cfgLanguage)) IN
    IF seed.err # "" THEN Outcome(seed.err, <<>>, cfgForced)
    ELSE
    LET cleared == ForcedAfterSeed(cfgForced)
        undefined == is_lang_id_undefined(seed.val)
        langs == Languages(cfgLanguage, batch_size)
    IN
    IF langs.err # "" THEN Outcome(langs.err, <<>>, cleared)
    ELSE
    LET ids == LangIds(cfgLanguage, langs.val, undefined, batch_size) IN
    IF ids.err # "" THEN Outcome(ids.err, <<>>, cleared)
    ELSE
    LET n == Len(langs.val)
        done == [i \in 1..n |-> FinishRow(InsertLanguage(seed.val, ids.val[i]), cfgLanguage)]
        bad == {i \in 1..n : done[i].err # ""}
    IN
    IF bad # {}
    THEN Outcome(done[CHOOSE i \in bad : \A j \in bad : i <= j].err, <<>>, cleared)
    ELSE
    LET arr == ToArray([i \in 1..n |-> done[i].val]) IN
    IF arr.err # "" THEN Outcome(arr.err, <<>>, cleared)
    ELSE Outcome("ok", Tile(arr.val, batch_size), cleared)

\* lines 58-59 left out: no check of the language table
LanguageRejectedNever(lang) == FALSE

\* lines 58-59: a language needs the config's language table
LanguageRejected(lang) == lang # None /\ ~hasLangTable

\* lines 51-68 (with the call of _retrieve_init_token)
preprocess(lang, batch_size) ==
    /\ argLanguage' = lang
    /\ argBatch' = batch_size
    /\ IF LanguageRejected(lang)
       THEN /\ result' = [status |-> "UnsupportedConfig", prompts |-> <<>>]
            /\ UNCHANGED <<language, forced_decoder_ids>>
       ELSE LET newLanguage == IF lang # None THEN lang ELSE language
                r == retrieve_init_token(batch_size, newLanguage, forced_decoder_ids)
            IN /\ language' = newLanguage
               /\ forced_decoder_ids' = r.forced
               /\ result' = [status |-> r.status, prompts |-> r.prompts]
    /\ UNCHANGED <<cfgVars, batchVars>>

\* ------------------------------------------------------ inputs and Init
Str(s) == Some([kind |-> "str", s |-> s])
List(l) == Some([kind |-> "list", l |-> l])

ScalarLanguages == {"en", "French", "<|fr|>", "german", "xx"}

\* per length one list of language codes and one list containing None
LanguageList(k) == [i \in 1..k |-> IF i % 2 = 1 THEN Some("en") ELSE Some("fr")]
ListWithNone(k) == [LanguageList(k) EXCEPT ![k] = None]
LanguageLists == UNION {{LanguageList(k), ListWithNone(k)} : k \in 1..MaxBatch}

LanguageArgs ==
    {None} \cup {Str(s) : s \in ScalarLanguages} \cup {List(l) : l \in LanguageLists}

\* position 1 is the language slot; task and timestamp tokens follow it
ForcedTokens(pos) ==
    IF pos = 1
    THEN {None, Some(lang_to_id["<|fr|>"])}
    ELSE {None, Some(task_to_id["transcribe"]), Some(no_timestamps_token_id)}

\* directives with increasing positions in 1..MaxPos
Directives ==
    {d \in UNION {[1..k -> (1..MaxPos) \X {None, Some(lang_to_id["<|fr|>"]),
                                            Some(task_to_id["transcribe"]),
                                            Some(no_timestamps_token_id)}] : k \in 0..MaxPos} :
        /\ \A j \in 1..(Len(d) - 1) : d[j][1] < d[j + 1][1]
        /\ \A j \in 1..Len(d) : d[j][2] \in ForcedTokens(d[j][1])}

NoResult == [status |-> "none", prompts |-> <<>>]
NoBatchResult == [status |-> "none", output_ids |-> <<>>]

BatchIdle ==
    /\ waves = <<>>
    /\ prompt_len = 0
    /\ engine_out = <<>>
    /\ enc_lengths = <<>>
    /\ batch_result = NoBatchResult

\* ORTWhisper.__init__: a fresh generation_config, no call made yet
InitBuild ==
    /\ hasLangTable \in BOOLEAN
    /\ hasTaskTable \in BOOLEAN
    /\ hasNoTimestamps \in BOOLEAN
    /\ return_timestamps \in BOOLEAN
    /\ language = None
    /\ forced_decoder_ids \in {None} \cup {Some(d) : d \in Directives}
    /\ argLanguage = None
    /\ argBatch = 0
    /\ result = NoResult

Init == InitBuild /\ BatchIdle

Next == \E lang \in LanguageArgs, batch_size \in 1..MaxBatch : preprocess(lang, batch_size)

Spec == Init /\ [][Next]_vars

\* ------------------------------------------------ WhisperTRTLLM.process_batch
eot_id == 50257
num_beams == 1

\* lines 84 and 95: prompt_ids is re-wrapped in every iteration, so the tensor
\* appended for the i-th sample has i-1 leading dimensions of size 1
DecoderInputShape(i, L) == [j \in 1..i |-> IF j = i THEN L ELSE 1]

DecoderInputShapes(k, L) == [i \in 1..k |-> DecoderInputShape(i, L)]

\* line 98: pad_sequence copies each tensor into a slot shaped by the first
\* one; a tensor of another rank does not fit unless all its sizes are 1,
\* and then the result depends on the torch build
pad_sequence(shapes) ==
    IF \A i \in 1..Len(shapes) : shapes[i] = shapes[1] THEN {"ok"}
    ELSE IF \E i \in 1..Len(shapes) : \E j \in 1..Len(shapes[i]) : shapes[i][j] # 1
    THEN {"RuntimeError"}
    ELSE {"ok", "RuntimeError"}

\* lines 101 and 107
encoder_output_lengths(mel_lengths) ==
    [i \in 1..Len(mel_lengths) |-> mel_lengths[i] \div 2]

\* line 119: outputs['output_ids'][0], the beams of the first batch row
OutputIds(out) == out[1]

MelLengths == {1000, 3000}
EngineSequences == {<<eot_id>>, <<400, eot_id>>}

\* lines 73-121; the engine answers in input order, one row of num_beams
\* sequences per sample
process_batch(mels, L) ==
    /\ waves' = mels
    /\ prompt_len' = L
    /\ \E pad \in pad_sequence(DecoderInputShapes(Len(mels), L)) :
         IF pad # "ok"
         THEN /\ engine_out' = <<>>
              /\ enc_lengths' = <<>>
              /\ batch_result' = [status |-> pad, output_ids |-> <<>>]
         ELSE \E out \in [1..Len(mels) -> [1..num_beams -> EngineSequences]] :
              /\ engine_out' = out
              /\ enc_lengths' = encoder_output_lengths(mels)
              /\ batch_result' = [status |-> "ok", output_ids |-> OutputIds(out)]
    /\ UNCHANGED <<cfgVars, buildVars>>

BuildIdle ==
    /\ hasLangTable = TRUE
    /\ hasTaskTable = TRUE
    /\ hasNoTimestamps = TRUE
    /\ return_timestamps = FALSE
    /\ language = None
    /\ forced_decoder_ids = None
    /\ argLanguage = None
    /\ argBatch = 0
    /\ result = NoResult

\* WhisperTRTLLM.__init__: no batch processed yet
InitBatch == BuildIdle /\ BatchIdle

NextBatch ==
    \E k \in 1..MaxSamples : \E mels \in [1..k -> MelLengths] : \E L \in 1..MaxPromptLen :
        process_batch(mels, L)

SpecBatch == InitBatch /\ [][NextBatch]_vars

\* ------------------------------------------------------------- properties
Last(seq) == seq[Len(seq)]

EnId == lang_to_id["<|en|>"]

\* the directive's positions are exactly 1, 2, 3, ...
Contiguous(d) == \A j \in 1..Len(d) : d[j][1] = j

\* the languages a valid language argument asks for, one per sample
RequestedLanguages(lang, n) ==
    IF Get(lang).kind = "list" THEN Get(lang).l ELSE [i \in 1..n |-> Some(Get(lang).s)]

\* a language argument that passes validation and names supported languages
ValidLanguageArg(lang, n) ==
    /\ lang # None
    /\ hasLangTable
    /\ LET ls == RequestedLanguages(lang, n) IN
       /\ Len(ls) = n
       /\ \A i \in 1..n : ls[i] # None /\ language_to_id(Get(ls[i])).err = ""

\* the timestamp step can run: return_timestamps reads no_timestamps_token_id
TimestampConfigOk == hasNoTimestamps \/ ~return_timestamps

\* C1: with a language table, no forced directive and language = null, a call
\* for batch size n returns exactly n prompts, all identical, each with the
\* 'en' token id directly after decoder_start_token_id.
C1_NullLanguageGivesNRows ==
    [][(/\ argLanguage' = None
        /\ language = None
        /\ forced_decoder_ids = None
        /\ hasLangTable
        /\ TimestampConfigOk)
       => (/\ result'.status = "ok"
           /\ Len(result'.prompts) = argBatch'
           /\ \A i \in 1..Len(result'.prompts) :
                /\ result'.prompts[i] = result'.prompts[1]
                /\ result'.prompts[i][1] = decoder_start_token_id
                /\ result'.prompts[i][2] = EnId)]_vars

\* C2: process_batch returns exactly one sequence per input sample, the i-th
\* being the engine's output for the i-th sample.
C2_OneSequencePerSample ==
    batch_result.status # "none"
    => (/\ batch_result.status = "ok"
        /\ Len(batch_result.output_ids) = Len(waves)
        /\ \A i \in 1..Len(waves) : batch_result.output_ids[i] = engine_out[i][1])

\* C3: with language = null, a non-empty forced directive whose positions are
\* not exactly 1, 2, 3, ... makes the call fail with MalformedForcedIds and
\* return no prompt.
C3_NonContiguousDirectiveFails ==
    [][(/\ argLanguage' = None
        /\ language = None
        /\ hasLangTable
        /\ TimestampConfigOk
        /\ forced_decoder_ids # None
        /\ Len(Get(forced_decoder_ids)) > 0
        /\ ~Contiguous(Get(forced_decoder_ids)))
       => (result'.status = "MalformedForcedIds" /\ result'.prompts = <<>>)]_vars

\* C4: a language list of length batch_size, or a scalar language, gives
\* exactly batch_size prompts, the i-th carrying the token id of the i-th
\* language.
C4_OnePromptPerLanguage ==
    (/\ ValidLanguageArg(argLanguage, argBatch)
     /\ ~hasTaskTable
     /\ TimestampConfigOk)
    => (/\ result.status = "ok"
        /\ Len(result.prompts) = argBatch
        /\ \A i \in 1..Len(result.prompts) :
             result.prompts[i][2] =
                language_to_id(Get(RequestedLanguages(argLanguage, argBatch)[i])).val)

C6_RejectedCallKeepsDirective ==
    [][result'.status \in {"InvalidArgument", "UnsupportedConfig"}
       => forced_decoder_ids' = forced_decoder_ids]_vars

\* C6 (amended): a call with a language on a config without language table is
\* rejected and leaves forced_decoder_ids and language as they were; a call
\* rejected for its language list has cleared forced_decoder_ids before.
C6_OnlyTableCheckPrecedesClearing ==
    /\ [][(argLanguage' # None /\ ~hasLangTable)
          => (/\ result'.status = "UnsupportedConfig"
              /\ forced_decoder_ids' = forced_decoder_ids
              /\ language' = language)]_vars
    /\ [][result'.status = "InvalidArgument" => forced_decoder_ids' = None]_vars

\* a call was rejected for the missing language table, the directive is kept
C6_Witness ==
    /\ result.status = "UnsupportedConfig"
    /\ argLanguage # None
    /\ forced_decoder_ids # None

\* C7: with a no-timestamps token on the config, a prompt built with
\* return_timestamps = true never ends with it and a prompt built with
\* return_timestamps = false always ends with it.
C7_TimestampPolicy ==
    (result.status = "ok" /\ hasNoTimestamps)
    => \A i \in 1..Len(result.prompts) :
         /\ return_timestamps => Last(result.prompts[i]) # no_timestamps_token_id
         /\ ~return_timestamps => Last(result.prompts[i]) = no_timestamps_token_id

\* C8: with an explicit supported language and a task table, the call
\* succeeds and every prompt has the 'transcribe' id right after the language
\* id (before the no-timestamps token).
C8_TaskTokenAppended ==
    (/\ ValidLanguageArg(argLanguage, argBatch)
     /\ hasTaskTable
     /\ TimestampConfigOk)
    => (/\ result.status = "ok"
        /\ \A i \in 1..Len(result.prompts) :
             /\ Len(result.prompts[i]) >= 3
             /\ result.prompts[i][3] = task_to_id["transcribe"])

\* C9: with language = null and a contiguous directive whose position-1 token
\* is not null, the call succeeds and every prompt starts with
\* decoder_start_token_id followed by the directive's token ids in order.
C9_ForcedLanguageKept ==
    [][(/\ argLanguage' = None
        /\ language = None
        /\ ~return_timestamps
        /\ forced_decoder_ids # None
        /\ Len(Get(forced_decoder_ids)) > 0
        /\ Contiguous(Get(forced_decoder_ids))
        /\ Get(forced_decoder_ids)[1][2] # None)
       => (/\ result'.status = "ok"
           /\ LET d == Get(forced_decoder_ids)
                  expected == <<decoder_start_token_id>> \o Sanitize([j \in 1..Len(d) |-> d[j][2]])
              IN \A i \in 1..Len(result'.prompts) :
                   /\ Len(result'.prompts[i]) >= Len(expected)
                   /\ SubSeq(result'.prompts[i], 1, Len(expected)) = expected)]_vars

\* C10: whatever calls came before, a call with language = null and no forced
\* directive builds its prompts with the default language 'en'.
C10_NullLanguageIsDefault ==
    [][(/\ argLanguage' = None
        /\ forced_decoder_ids = None
        /\ hasLangTable
        /\ TimestampConfigOk)
       => (/\ result'.status = "ok"
           /\ \A i \in 1..Len(result'.prompts) : result'.prompts[i][2] = EnId)]_vars

====
